---- MODULE Spec2Model ----
(***************************************************************************)
(* Model of scripts/build_models.py: the model catalog, download_file,     *)
(* verify_file_size and main together with the __main__ wrapper.           *)
(*                                                                         *)
(* Python floats are IEEE-754 binary64.  verify_file_size computes its     *)
(* bounds with float arithmetic, so the model carries floats as exact      *)
(* binary fixed-point numbers (bit vectors) and rounds every float         *)
(* operation to 53 significant bits, round-half-to-even, as CPython does.  *)
(***************************************************************************)
EXTENDS Integers, Sequences, FiniteSets, TLC

VARIABLES
    pc,              \* where the process is: "start", "check", "get", "open",
                     \* "stream", "except", "verify", "manifest", "summary", "done"
    idx,             \* position of the loop of main in MODELS
    dir,             \* whether the models directory exists
    disk,            \* destination files: Absent or the size in bytes
    disk0,           \* the destination files as they were when the run began
    manifest,        \* manifest.json on disk
    built,           \* manifest["models"] in memory
    gets,            \* GET requests issued in this run, per entry
    result,          \* what main logged for each entry in this run
    cause,           \* the exception download_file caught last, "none" once
                     \* main has moved on from it
    body,            \* length of the response body while it is streamed
    exitCode,        \* exit status of the process, Running while it runs
    exitReason,      \* how the process ended
    run,             \* number of the current invocation of the script
    prevAllOk,       \* the previous run finished and none of its downloads failed
    prevAllVerified, \* ... and each of its downloads passed verification
    prevFetched,     \* ... and it did download at least one file
    writes,          \* times this run wrote manifest.json
    vfile, vE, vT, vResult   \* a direct call verify_file_size(vfile, vE, vT)

vars == <<pc, idx, dir, disk, disk0, manifest, built, gets, result, cause, body,
          exitCode, exitReason, run, prevAllOk, prevAllVerified, prevFetched, writes,
          vfile, vE, vT, vResult>>

mainVars == <<pc, idx, dir, disk, disk0, manifest, built, gets, result, cause, body,
              exitCode, exitReason, run, prevAllOk, prevAllVerified, prevFetched, writes>>

verifyVars == <<vfile, vE, vT, vResult>>

(***************************************************************************)
(* Binary64 arithmetic.  A non-negative number is a tuple of four limbs of *)
(* LIMB bits, lowest first, read as an integer scaled by 2^-FRAC: limb 4   *)
(* is the integer part, limbs 1..3 are the 60 fractional bits.  That is    *)
(* wide enough to hold every product below before it is rounded.           *)
(***************************************************************************)
MANT == 53
LIMB == 20
FRAC == 60
BASE == 1048576

RECURSIVE Pow2(_)
Pow2(n) == IF n = 0 THEN 1 ELSE 2 * Pow2(n - 1)

Zero == <<0, 0, 0, 0>>

\* int -> float conversion of a small non-negative integer (exact)
FromInt(n) == <<0, 0, 0, n>>

Add(a, b) ==
    LET s1 == a[1] + b[1]
        s2 == a[2] + b[2] + s1 \div BASE
        s3 == a[3] + b[3] + s2 \div BASE
        s4 == a[4] + b[4] + s3 \div BASE
    IN  <<s1 % BASE, s2 % BASE, s3 % BASE, s4>>

\* a - b for a >= b
Sub(a, b) ==
    LET d1 == a[1] - b[1]
        d2 == a[2] - b[2] - (IF d1 < 0 THEN 1 ELSE 0)
        d3 == a[3] - b[3] - (IF d2 < 0 THEN 1 ELSE 0)
        d4 == a[4] - b[4] - (IF d3 < 0 THEN 1 ELSE 0)
    IN  <<d1 % BASE, d2 % BASE, d3 % BASE, d4>>

\* exact product of a small non-negative integer and a float
MulInt(n, a) ==
    LET p1 == n * a[1]
        p2 == n * a[2] + p1 \div BASE
        p3 == n * a[3] + p2 \div BASE
        p4 == n * a[4] + p3 \div BASE
    IN  <<p1 % BASE, p2 % BASE, p3 % BASE, p4>>

Bit(a, i) == (a[i \div LIMB + 1] \div Pow2(i % LIMB)) % 2

RECURSIVE LimbLen(_)
\* number of significant bits of a limb
LimbLen(x) == IF x = 0 THEN 0 ELSE 1 + LimbLen(x \div 2)

BitLen(a) ==
    IF a[4] # 0 THEN 3 * LIMB + LimbLen(a[4])
    ELSE IF a[3] # 0 THEN 2 * LIMB + LimbLen(a[3])
    ELSE IF a[2] # 0 THEN LIMB + LimbLen(a[2])
    ELSE LimbLen(a[1])

\* limb k of a with the bits below bit index cut cleared
Chop(a, k, cut) ==
    LET low == LIMB * (k - 1)
    IN  IF low + LIMB <= cut THEN 0
        ELSE IF low >= cut THEN a[k]
        ELSE (a[k] \div Pow2(cut - low)) * Pow2(cut - low)

\* round an exact value to MANT significant bits, ties to even; sticky tells
\* that the exact value has further non-zero bits below the lowest limb
Round(a, sticky) ==
    LET cut == BitLen(a) - MANT
    IN  IF cut <= 0 THEN a
        ELSE LET rest    == sticky \/ \E k \in 1..4 : Chop(a, k, cut - 1) # a[k]
                 roundUp == Bit(a, cut - 1) = 1 /\ (rest \/ Bit(a, cut) = 1)
                 trunc   == <<Chop(a, 1, cut), Chop(a, 2, cut), Chop(a, 3, cut), Chop(a, 4, cut)>>
                 ulp     == [k \in 1..4 |-> IF k = cut \div LIMB + 1 THEN Pow2(cut % LIMB) ELSE 0]
             IN  IF roundUp THEN Add(trunc, ulp) ELSE trunc

\* the float a decimal literal num/den denotes (correctly rounded quotient)
Literal(num, den) ==
    LET r3 == num % den
        r2 == (r3 * BASE) % den
        r1 == (r2 * BASE) % den
        r0 == (r1 * BASE) % den
    IN  Round(<<(r1 * BASE) \div den, (r2 * BASE) \div den, (r3 * BASE) \div den, num \div den>>,
              r0 # 0)

RECURSIVE LeqFrom(_, _, _)
LeqFrom(a, b, k) ==
    IF k = 0 THEN TRUE
    ELSE IF a[k] # b[k] THEN a[k] < b[k]
    ELSE LeqFrom(a, b, k - 1)

Leq(a, b) == LeqFrom(a, b, 4)

(***************************************************************************)
(* Files.  A path holds Absent or the size in bytes of the file there.     *)
(***************************************************************************)
Absent == -1
MB == 1048576

\* st_size / (1024 * 1024): exact, the byte counts have fewer than 53 bits
SizeMb(bytes) == <<0, 0, bytes % BASE, bytes \div BASE>>

\* a tolerance is a decimal literal given in tenths; the default is 0.1
DefaultTolerance == 1

\* expected_size_mb * (1 - tolerance), for a tolerance up to 1.0
expected_min(expected_size_mb, tolerance) ==
    Round(MulInt(expected_size_mb,
                 Round(Sub(FromInt(1), Literal(tolerance, 10)), FALSE)), FALSE)

expected_max(expected_size_mb, tolerance) ==
    Round(MulInt(expected_size_mb,
                 Round(Add(FromInt(1), Literal(tolerance, 10)), FALSE)), FALSE)

\* verify_file_size without the lower bound
verify_file_size_nomin(filepath, expected_size_mb, tolerance) ==
    IF filepath = Absent THEN FALSE
    ELSE Leq(SizeMb(filepath), expected_max(expected_size_mb, tolerance))

\* a tolerance above 1.0 makes expected_min negative or -0.0, which no
\* file size is below
verify_file_size(filepath, expected_size_mb, tolerance) ==
    IF filepath = Absent THEN FALSE
    ELSE /\ \/ tolerance > 10
            \/ Leq(expected_min(expected_size_mb, tolerance), SizeMb(filepath))
         /\ Leq(SizeMb(filepath), expected_max(expected_size_mb, tolerance))

(***************************************************************************)
(* The catalog and the environment of main.                                *)
(***************************************************************************)
MODELS ==
    << [name |-> "tiny.en",  size_mb |-> 39],
       [name |-> "base.en",  size_mb |-> 148],
       [name |-> "small.en", size_mb |-> 244] >>

Entries == 1..Len(MODELS)

MaxRuns == 2
Running == -1

\* floor(k / 10 megabytes) in bytes
TenthsMb(k) == (k \div 10) * MB + ((k % 10) * MB) \div 10

\* the lengths a response body or a file left by an earlier run may have:
\* empty, the expected size, just over the tolerance
FileSizes(size_mb) ==
    {0, size_mb * MB, TenthsMb(11 * size_mb) + 1}

NoManifest == [present |-> FALSE, models |-> [n \in Entries |-> Absent]]
StaleManifest == [present |-> TRUE, models |-> [n \in Entries |-> 1]]

\* where the loop of main goes after entry i
NextPc(i) == IF i >= Len(MODELS) THEN "manifest" ELSE "check"

MainInit ==
    /\ pc = "start"
    /\ idx = 1
    /\ dir \in BOOLEAN
    /\ disk \in [Entries -> {Absent} \cup UNION {FileSizes(MODELS[n].size_mb) : n \in Entries}]
    /\ \A n \in Entries : disk[n] \in {Absent} \cup FileSizes(MODELS[n].size_mb)
    /\ manifest \in {NoManifest, StaleManifest}
    /\ ~dir => manifest = NoManifest /\ \A n \in Entries : disk[n] = Absent
    /\ disk0 = disk
    /\ built = [n \in Entries |-> Absent]
    /\ gets = [n \in Entries |-> 0]
    /\ result = [n \in Entries |-> "none"]
    /\ cause = "none"
    /\ body = 0
    /\ exitCode = Running
    /\ exitReason = "none"
    /\ run = 1
    /\ prevAllOk = FALSE
    /\ prevAllVerified = FALSE
    /\ prevFetched = FALSE
    /\ writes = 0

Init ==
    /\ MainInit
    /\ vfile = Absent /\ vE = 0 /\ vT = DefaultTolerance /\ vResult = "pending"

\* the process ends with the given status
Exit(code, reason) ==
    /\ pc' = "done"
    /\ exitCode' = code
    /\ exitReason' = reason

\* models_dir.mkdir(exist_ok=True); an OSError reaches the handler of __main__
main_mkdir ==
    /\ pc = "start"
    /\ \/ /\ dir' = TRUE
          /\ pc' = "check"
          /\ UNCHANGED <<exitCode, exitReason>>
       \/ /\ ~dir
          /\ Exit(1, "mkdir")
          /\ UNCHANGED dir
    /\ UNCHANGED <<idx, disk, disk0, manifest, built, gets, result, cause, body,
                   run, prevAllOk, prevAllVerified, prevFetched, writes, verifyVars>>

\* main_check with the size check negated
main_check_inverted ==
    /\ pc = "check"
    /\ IF disk[idx] # Absent /\ ~verify_file_size(disk[idx], MODELS[idx].size_mb, DefaultTolerance)
       THEN /\ result' = [result EXCEPT ![idx] = "skipped"]
            /\ idx' = idx + 1
            /\ pc' = NextPc(idx)
       ELSE /\ pc' = "get"
            /\ UNCHANGED <<idx, result>>
    /\ cause' = "none"
    /\ UNCHANGED <<dir, disk, disk0, manifest, built, gets, body, exitCode,
                   exitReason, run, prevAllOk, prevAllVerified, prevFetched, writes, verifyVars>>

\* main_check that skips every file that exists, verified or not
main_check_exists_only ==
    /\ pc = "check"
    /\ IF disk[idx] # Absent
       THEN /\ result' = [result EXCEPT ![idx] = "skipped"]
            /\ idx' = idx + 1
            /\ pc' = NextPc(idx)
       ELSE /\ pc' = "get"
            /\ UNCHANGED <<idx, result>>
    /\ cause' = "none"
    /\ UNCHANGED <<dir, disk, disk0, manifest, built, gets, body, exitCode,
                   exitReason, run, prevAllOk, prevAllVerified, prevFetched, writes, verifyVars>>

\* the head of the loop body: skip the entry or start download_file
main_check ==
    /\ pc = "check"
    /\ IF disk[idx] # Absent /\ verify_file_size(disk[idx], MODELS[idx].size_mb, DefaultTolerance)
       THEN /\ result' = [result EXCEPT ![idx] = "skipped"]
            /\ idx' = idx + 1
            /\ pc' = NextPc(idx)
       ELSE /\ pc' = "get"
            /\ UNCHANGED <<idx, result>>
    /\ cause' = "none"
    /\ UNCHANGED <<dir, disk, disk0, manifest, built, gets, body, exitCode,
                   exitReason, run, prevAllOk, prevAllVerified, prevFetched, writes, verifyVars>>

\* requests.get and raise_for_status
download_file_get ==
    /\ pc = "get"
    /\ gets' = [gets EXCEPT ![idx] = @ + 1]
    /\ \/ \E length \in FileSizes(MODELS[idx].size_mb) :
             /\ body' = length
             /\ pc' = "open"
             /\ UNCHANGED cause
       \/ \E c \in {"status", "network"} :
             /\ cause' = c
             /\ pc' = "except"
             /\ UNCHANGED body
    /\ UNCHANGED <<idx, dir, disk, disk0, manifest, built, result, exitCode,
                   exitReason, run, prevAllOk, prevAllVerified, prevFetched, writes, verifyVars>>

\* open(filepath, 'wb') truncates the file or raises OSError
download_file_open ==
    /\ pc = "open"
    /\ \/ /\ disk' = [disk EXCEPT ![idx] = 0]
          /\ pc' = "stream"
          /\ UNCHANGED cause
       \/ /\ cause' = "open"
          /\ pc' = "except"
          /\ UNCHANGED disk
    /\ UNCHANGED <<idx, dir, disk0, manifest, built, gets, result, body, exitCode,
                   exitReason, run, prevAllOk, prevAllVerified, prevFetched, writes, verifyVars>>

\* the chunk loop: the file grows, the transfer or a write fails, or the
\* body is complete and download_file returns True
download_file_write ==
    /\ pc = "stream"
    /\ \/ \E length \in FileSizes(MODELS[idx].size_mb) :
             /\ disk[idx] < length /\ length <= body
             /\ disk' = [disk EXCEPT ![idx] = length]
             /\ UNCHANGED <<pc, cause>>
       \/ \E c \in {"network", "write"} :
             /\ cause' = c
             /\ pc' = "except"
             /\ UNCHANGED disk
       \/ /\ disk[idx] = body
          /\ pc' = "verify"
          /\ UNCHANGED <<disk, cause>>
    /\ UNCHANGED <<idx, dir, disk0, manifest, built, gets, result, body, exitCode,
                   exitReason, run, prevAllOk, prevAllVerified, prevFetched, writes, verifyVars>>

\* the handler without the unlink
download_file_except_keep ==
    /\ pc = "except"
    /\ result' = [result EXCEPT ![idx] = "failed"]
    /\ idx' = idx + 1
    /\ pc' = NextPc(idx)
    /\ body' = 0
    /\ UNCHANGED <<dir, disk, disk0, manifest, built, gets, cause, exitCode,
                   exitReason, run, prevAllOk, prevAllVerified, prevFetched, writes, verifyVars>>

\* a failed download that ends the loop (break instead of continue)
download_file_except_abort ==
    /\ pc = "except"
    /\ disk' = [disk EXCEPT ![idx] = Absent]
    /\ result' = [result EXCEPT ![idx] = "failed"]
    /\ idx' = idx + 1
    /\ pc' = "manifest"
    /\ body' = 0
    /\ UNCHANGED <<dir, disk0, manifest, built, gets, cause, exitCode,
                   exitReason, run, prevAllOk, prevAllVerified, prevFetched, writes, verifyVars>>

\* a handler that lets OSError through to __main__
download_file_except_reraise ==
    /\ pc = "except"
    /\ IF cause \in {"open", "write"}
       THEN /\ pc' = "done"
            /\ exitCode' = 1
            /\ exitReason' = "write_file"
            /\ UNCHANGED <<disk, result, idx>>
       ELSE /\ disk' = [disk EXCEPT ![idx] = Absent]
            /\ result' = [result EXCEPT ![idx] = "failed"]
            /\ idx' = idx + 1
            /\ pc' = NextPc(idx)
            /\ UNCHANGED <<exitCode, exitReason>>
    /\ body' = 0
    /\ UNCHANGED <<dir, disk0, manifest, built, gets, cause,
                   run, prevAllOk, prevAllVerified, prevFetched, writes, verifyVars>>

\* except Exception: remove the file, return False; main logs and continues
download_file_except ==
    /\ pc = "except"
    /\ disk' = [disk EXCEPT ![idx] = Absent]
    /\ result' = [result EXCEPT ![idx] = "failed"]
    /\ idx' = idx + 1
    /\ pc' = NextPc(idx)
    /\ body' = 0
    /\ UNCHANGED <<dir, disk0, manifest, built, gets, cause, exitCode,
                   exitReason, run, prevAllOk, prevAllVerified, prevFetched, writes, verifyVars>>

\* main_verify that deletes a file failing the check
main_verify_remove ==
    /\ pc = "verify"
    /\ IF verify_file_size(disk[idx], MODELS[idx].size_mb, DefaultTolerance)
       THEN /\ result' = [result EXCEPT ![idx] = "verified"]
            /\ UNCHANGED disk
       ELSE /\ result' = [result EXCEPT ![idx] = "warned"]
            /\ disk' = [disk EXCEPT ![idx] = Absent]
    /\ idx' = idx + 1
    /\ pc' = NextPc(idx)
    /\ body' = 0
    /\ UNCHANGED <<dir, disk0, manifest, built, gets, cause, exitCode,
                   exitReason, run, prevAllOk, prevAllVerified, prevFetched, writes, verifyVars>>

\* download_file returned True: verify, log, go on
main_verify ==
    /\ pc = "verify"
    /\ result' = [result EXCEPT ![idx] =
                    IF verify_file_size(disk[idx], MODELS[idx].size_mb, DefaultTolerance)
                    THEN "verified" ELSE "warned"]
    /\ idx' = idx + 1
    /\ pc' = NextPc(idx)
    /\ body' = 0
    /\ UNCHANGED <<dir, disk, disk0, manifest, built, gets, cause, exitCode,
                   exitReason, run, prevAllOk, prevAllVerified, prevFetched, writes, verifyVars>>

\* a manifest built from the entries main logged as verified
main_manifest_from_log ==
    /\ pc = "manifest"
    /\ built' = [n \in Entries |->
                    IF result[n] \in {"skipped", "verified"} THEN disk[n] ELSE Absent]
    /\ \/ /\ manifest' = [present |-> TRUE, models |-> built']
          /\ writes' = writes + 1
          /\ pc' = "summary"
          /\ UNCHANGED <<exitCode, exitReason>>
       \/ /\ Exit(1, "write_manifest")
          /\ UNCHANGED <<manifest, writes>>
    /\ cause' = "none"
    /\ UNCHANGED <<idx, dir, disk, disk0, gets, result, body,
                   run, prevAllOk, prevAllVerified, prevFetched, verifyVars>>

\* build the manifest from the files on disk and write manifest.json; an
\* OSError of open reaches the handler of __main__
main_manifest ==
    /\ pc = "manifest"
    /\ built' = [n \in Entries |-> disk[n]]
    /\ \/ /\ manifest' = [present |-> TRUE, models |-> built']
          /\ writes' = writes + 1
          /\ pc' = "summary"
          /\ UNCHANGED <<exitCode, exitReason>>
       \/ /\ Exit(1, "write_manifest")
          /\ UNCHANGED <<manifest, writes>>
    /\ cause' = "none"
    /\ UNCHANGED <<idx, dir, disk, disk0, gets, result, body,
                   run, prevAllOk, prevAllVerified, prevFetched, verifyVars>>

\* a summary that never calls sys.exit(1)
main_summary_noexit ==
    /\ pc = "summary"
    /\ Exit(0, "return")
    /\ UNCHANGED <<idx, dir, disk, disk0, manifest, built, gets, result, cause, body,
                   run, prevAllOk, prevAllVerified, prevFetched, writes, verifyVars>>

\* the summary and the exit policy
main_summary ==
    /\ pc = "summary"
    /\ IF Cardinality({n \in Entries : built[n] # Absent}) > 0
       THEN Exit(0, "return")
       ELSE Exit(1, "sysexit")
    /\ UNCHANGED <<idx, dir, disk, disk0, manifest, built, gets, result, cause, body,
                   run, prevAllOk, prevAllVerified, prevFetched, writes, verifyVars>>

\* Ctrl-C at any point: no handler below __main__ catches KeyboardInterrupt
KeyboardInterrupt ==
    /\ pc # "done"
    /\ Exit(1, "interrupt")
    /\ UNCHANGED <<idx, dir, disk, disk0, manifest, built, gets, result, cause, body,
                   run, prevAllOk, prevAllVerified, prevFetched, writes, verifyVars>>

\* the script is started again on the directory the last run left
StartRun ==
    /\ pc = "done"
    /\ run < MaxRuns
    /\ run' = run + 1
    /\ prevAllOk' = (exitCode = 0 /\ \A n \in Entries : result[n] # "failed")
    /\ prevAllVerified' = \A n \in Entries : result[n] \in {"skipped", "verified"}
    /\ prevFetched' = \E n \in Entries : result[n] \in {"verified", "warned"}
    /\ pc' = "start"
    /\ idx' = 1
    /\ disk0' = disk
    /\ built' = [n \in Entries |-> Absent]
    /\ gets' = [n \in Entries |-> 0]
    /\ result' = [n \in Entries |-> "none"]
    /\ cause' = "none"
    /\ body' = 0
    /\ exitCode' = Running
    /\ exitReason' = "none"
    /\ writes' = 0
    /\ UNCHANGED <<dir, disk, manifest, verifyVars>>

Next ==
    \/ main_mkdir
    \/ main_check
    \/ download_file_get
    \/ download_file_open
    \/ download_file_write
    \/ download_file_except
    \/ main_verify
    \/ main_manifest
    \/ main_summary
    \/ KeyboardInterrupt
    \/ StartRun

Spec == Init /\ [][Next]_vars

(***************************************************************************)
(* verify_file_size called on its own, over expected sizes, tolerances and *)
(* files around the two bounds.                                            *)
(***************************************************************************)
MaxExpectedMb == 10
MaxTolerance == 10

NearSizes(size_mb, tolerance) ==
    LET low  == IF tolerance > 10 THEN 0 ELSE TenthsMb(size_mb * (10 - tolerance))
        high == TenthsMb(size_mb * (10 + tolerance))
    IN  {b \in {0, size_mb * MB, low - 1, low, low + 1, high - 1, high, high + 1} : b >= 0}

InitVerify ==
    /\ MainInit
    /\ ~dir
    /\ vE \in 0..MaxExpectedMb
    /\ vT \in 0..MaxTolerance
    /\ vfile \in {Absent} \cup NearSizes(vE, vT)
    /\ vResult = "pending"

CallVerify ==
    /\ vResult = "pending"
    /\ vResult' = IF verify_file_size(vfile, vE, vT) THEN "true" ELSE "false"
    /\ UNCHANGED <<vfile, vE, vT, mainVars>>

NextVerify == CallVerify

SpecVerify == InitVerify /\ [][NextVerify]_vars

(***************************************************************************)
(* Properties.                                                             *)
(***************************************************************************)
HasEntry(n) == manifest.present /\ manifest.models[n] # Absent

VerifiedAtStart(n) ==
    disk0[n] # Absent /\ verify_file_size(disk0[n], MODELS[n].size_mb, DefaultTolerance)

Fetched(n) == result[n] \in {"verified", "warned"}

FsCauses == {"open", "write"}

\* C1: once download_file has failed for an entry, whatever the cause, it has
\* returned False (main logged the failure and moved on) and no file is at
\* the destination, also when one was there before the call.
C1_FailedLeavesNoFile ==
    /\ \A n \in Entries : result[n] = "failed" => disk[n] = Absent /\ gets[n] = 1
    /\ (cause # "none" /\ pc \notin {"except", "done"}) =>
          /\ pc \in {"check", "manifest"}
          /\ result[idx - 1] = "failed"
    /\ (cause # "none" /\ pc = "done") => exitReason = "interrupt"

C1_Witness ==
    /\ result[1] = "failed" /\ disk0[1] # Absent
    /\ result[2] = "failed" /\ disk0[2] = Absent /\ cause = "status"
    /\ pc = "check"

\* C2 as stated: in a second run that follows a run in which no download
\* failed, no GET is issued.
C2_Claim ==
    (run > 1 /\ prevAllOk /\ prevFetched) => \A n \in Entries : gets[n] = 0

\* C2 amended: in a second run that follows a run in which no download failed
\* and every downloaded file passed size verification, no GET is issued and
\* every entry reached is skipped.
C2_Idempotent ==
    (run > 1 /\ prevAllOk /\ prevAllVerified) =>
        \A n \in Entries : gets[n] = 0 /\ result[n] \in {"none", "skipped"}

C2_Witness ==
    /\ run = 2 /\ prevAllOk /\ prevAllVerified /\ prevFetched
    /\ pc = "done" /\ exitReason = "return"
    /\ \A n \in Entries : result[n] = "skipped"

\* C3: the process ends with status 0 or 1; 0 exactly when main returned, and
\* main returns only after writing a manifest with at least one entry; with
\* an empty manifest, an interrupt or an uncaught error the status is 1.
C3_ExitStatus ==
    /\ exitCode \in {Running, 0, 1}
    /\ pc = "done" <=> exitCode # Running
    /\ pc = "done" =>
          /\ exitCode = 0 <=> exitReason = "return"
          /\ exitReason = "return" => writes = 1 /\ \E n \in Entries : HasEntry(n)
          /\ exitReason = "sysexit" => writes = 1 /\ \A n \in Entries : ~HasEntry(n)
          /\ exitReason \in {"return", "sysexit", "interrupt", "mkdir", "write_manifest"}

C3_Witness ==
    /\ pc = "done" /\ exitReason = "interrupt" /\ exitCode = 1
    /\ writes = 1 /\ \E n \in Entries : HasEntry(n)

\* a run that issued fetches, all of which failed
AllFetchesFail ==
    /\ \E n \in Entries : gets[n] > 0
    /\ \A n \in Entries : gets[n] > 0 => result[n] = "failed"

\* C4 as stated: when every fetch of the run fails, the manifest written has
\* no entry and the exit status is 1.
C4_Claim ==
    (writes = 1 /\ AllFetchesFail) =>
        /\ \A n \in Entries : ~HasEntry(n)
        /\ pc = "done" => exitCode = 1

\* C4 amended: when every fetch of the run fails, the manifest written lists
\* exactly the entries whose file was on disk and passed verification when
\* the run began, with that file's size; the status is 1 when there is none
\* (or on an interrupt) and 0 otherwise.
C4_AllFail ==
    (writes = 1 /\ AllFetchesFail) =>
        /\ \A n \in Entries :
              /\ HasEntry(n) <=> VerifiedAtStart(n)
              /\ HasEntry(n) => manifest.models[n] = disk0[n]
        /\ (pc = "done" /\ exitReason # "interrupt") =>
              (exitCode = 1 <=> \A n \in Entries : ~VerifiedAtStart(n))

C4_Witness ==
    /\ writes = 1 /\ AllFetchesFail /\ pc = "done"
    /\ exitCode = 0
    /\ VerifiedAtStart(1)
    /\ disk0[2] # Absent /\ ~VerifiedAtStart(2) /\ ~HasEntry(2)

\* C5: entries are processed one after the other in catalog order, a failed
\* fetch included; when the directory was empty at the start, the manifest
\* lists exactly the entries whose fetch succeeded, and the run ends with
\* status 0 exactly when there is one.
C5_BatchContinues ==
    /\ \A n \in Entries : result[n] # "none" <=> n < idx
    /\ writes = 1 => \A n \in Entries : result[n] # "none"
    /\ (writes = 1 /\ \A n \in Entries : disk0[n] = Absent) =>
          \A n \in Entries : HasEntry(n) <=> Fetched(n)
    /\ (pc = "done" /\ exitReason \in {"return", "sysexit"}
          /\ \A n \in Entries : disk0[n] = Absent) =>
          (exitCode = 0 <=> \E n \in Entries : Fetched(n))

C5_Witness ==
    /\ \A n \in Entries : disk0[n] = Absent
    /\ Fetched(1) /\ result[2] = "failed" /\ Fetched(3)
    /\ HasEntry(1) /\ ~HasEntry(2) /\ HasEntry(3)
    /\ pc = "done" /\ exitCode = 0

\* C6 as stated: after a filesystem error (mkdir, or opening or writing a
\* destination file) the run handles no further entry and ends with status 1.
C6_Claim ==
    /\ exitReason = "mkdir" => exitCode = 1
    /\ cause \in FsCauses =>
          /\ pc \in {"except", "done"}
          /\ pc = "done" => exitCode = 1

\* C6 amended: a failure of mkdir ends the run with status 1 before any entry
\* is handled; a failure to open or write a destination file is handled like
\* any failed download: the file is removed, the entry is logged as failed
\* and the run goes on with the next entry.
C6_Filesystem ==
    /\ [](exitReason = "mkdir" =>
            /\ exitCode = 1 /\ writes = 0
            /\ \A n \in Entries : result[n] = "none" /\ gets[n] = 0)
    /\ [][(pc = "except" /\ cause \in FsCauses /\ exitReason' # "interrupt") =>
            /\ pc' = NextPc(idx)
            /\ idx' = idx + 1
            /\ result' = [result EXCEPT ![idx] = "failed"]
            /\ disk' = [disk EXCEPT ![idx] = Absent]
            /\ exitCode' = Running]_vars

C6_Witness ==
    /\ cause = "write" /\ result[1] = "failed" /\ disk[1] = Absent
    /\ pc = "check" /\ idx = 2 /\ exitCode = Running

\* C9: the manifest is written at most once per run, after the loop; once
\* written it has an entry for exactly the destination files that exist,
\* with their sizes on disk, and nothing else.
C9_ManifestFromDisk ==
    /\ writes \in {0, 1}
    /\ writes = 1 =>
          /\ pc \in {"summary", "done"}
          /\ idx = Len(MODELS) + 1
          /\ manifest = [present |-> TRUE, models |-> disk]
          /\ built = disk

C9_Witness ==
    /\ writes = 1
    /\ result[1] = "skipped" /\ result[2] = "warned" /\ result[3] = "failed"
    /\ HasEntry(1) /\ HasEntry(2) /\ ~HasEntry(3)
    /\ disk0[3] # Absent

\* C10: no entry is fetched twice in a run; checking the downloaded file
\* changes no file and issues no request, whatever the outcome, and goes on
\* to the next entry; a file that failed the check stays as downloaded.
C10_WarnOnly ==
    /\ [](\A n \in Entries : gets[n] <= 1)
    /\ [](\A n \in Entries :
            result[n] = "warned" =>
                /\ gets[n] = 1
                /\ disk[n] # Absent
                /\ ~verify_file_size(disk[n], MODELS[n].size_mb, DefaultTolerance))
    /\ [][(pc = "verify" /\ exitReason' # "interrupt") =>
            /\ disk' = disk
            /\ gets' = gets
            /\ idx' = idx + 1
            /\ pc' = NextPc(idx)]_vars

C10_Witness ==
    /\ result[1] = "warned" /\ disk[1] = TenthsMb(11 * MODELS[1].size_mb) + 1
    /\ result[2] = "verified"
    /\ pc = "done" /\ exitReason = "return"

C8_Claim ==
    (vResult # "pending" /\ vfile \in {Absent, 0}) => vResult = "false"

\* C8 amended: a missing file fails the check for every expected size and
\* tolerance; an empty file fails it for every expected size above zero and
\* every tolerance below 1.0.
C8_EmptyOrMissing ==
    vResult # "pending" =>
        /\ vfile = Absent => vResult = "false"
        /\ (vfile = 0 /\ vE > 0 /\ vT < 10) => vResult = "false"

C8_Witness ==
    vResult = "false" /\ vfile = 0 /\ vE = MaxExpectedMb /\ vT = 9

====
